---- MODULE Spec2Model ----
(***************************************************************************)
(* A model of the paper-quiz app (HuguesSib/notionquiz): the SM-2 review   *)
(* scheduler and the priority ranker (utils/spacedRepetition.ts,           *)
(* utils/priority.ts) and the App component that stores per-paper review   *)
(* statistics (App.tsx: reducer, loadData, saveSession,                    *)
(* handleResetProgress).                                                   *)
(*                                                                         *)
(* Number representation.  TLA+ has no floating point, so                  *)
(*   - an ease factor is an integer number of hundredths (2.5 is 250),     *)
(*   - a mastery score is an integer number of millionths (40 is           *)
(*     40 * MasteryUnit); the blend 0.7*old + 0.3*score is exact in this   *)
(*     representation for as many blends as the model allows,              *)
(*   - a timestamp is an integer number of clock ticks, TicksPerDay ticks  *)
(*     to the day, so that the Math.floor of a day difference matters.     *)
(* An optional value (undefined in the source) is the empty set, a present *)
(* one the singleton of its value.                                         *)
(***************************************************************************)
EXTENDS Integers, Sequences, FiniteSets, TLC

\* ---------------------------------------------------------------- helpers

None == {}

Some(x) == {x}

Get(o) == CHOOSE x \in o : TRUE

Min(a, b) == IF a < b THEN a ELSE b

Max(a, b) == IF a > b THEN a ELSE b

\* Math.floor(n / d) for d > 0 (\div rounds towards minus infinity).
MathFloorDiv(n, d) == n \div d

\* Math.round(n / d) for d > 0: floor(n/d + 1/2), halves go up.
MathRoundDiv(n, d) == (2 * n + d) \div (2 * d)

\* ------------------------------------------------------------------ units

\* Ease factors are counted in hundredths.
EaseUnit == 10 * 10

\* Mastery scores are counted in millionths.
MasteryUnit == 10 * 10 * 10 * 10 * 10 * 10

\* Clock ticks per day (24 * 60 * 60 * 1000 ms in the source).
TicksPerDay == 1 + 1

\* ------------------------------------------------------ program constants

\* Math.max(1.3, ...): the ease factor floor, in hundredths.
MinEaseFactor == 130

\* The default ease factor 2.5, in hundredths.
DefaultEaseFactor == 250

\* Math.min(newInterval, 60): the interval cap, in days.
MaxIntervalDays == 60

\* quality < 3: the item is relearned.
PassQuality == 3

\* ----------------------------------------------------------------- bounds

\* Largest previousInterval handed to calculateNextReview as a direct input.
MaxPrevInterval == 62

\* Ease factor inputs (hundredths) handed to calculateNextReview directly.
MinEaseInput == 100

MaxEaseInput == 300

\* The quality scale of calculateNextReview (0-5).
Qualities == 0 .. 5

\* -------------------------------------------------- spaced repetition

\* Math.max(1.3, easeFactor - 0.2) without the Math.max.
RelearnEaseFactor_NoFloor(easeFactor) == easeFactor - 20

\* The ease factor after a failed review: Math.max(1.3, easeFactor - 0.2).
RelearnEaseFactor(easeFactor) == Max(MinEaseFactor, easeFactor - 20)

\* The interval steps with Math.floor in place of Math.round.
NewInterval_Truncating(previousInterval, easeFactor) ==
  IF previousInterval = 0 THEN 1
  ELSE IF previousInterval = 1 THEN 3
  ELSE MathFloorDiv(previousInterval * easeFactor, EaseUnit)

\* let newInterval: 1 on the first review, 3 on the second, then
\* Math.round(previousInterval * easeFactor).
NewInterval(previousInterval, easeFactor) ==
  IF previousInterval = 0 THEN 1
  ELSE IF previousInterval = 1 THEN 3
  ELSE MathRoundDiv(previousInterval * easeFactor, EaseUnit)

\* The SM-2 adjustment with its two coefficients swapped.
EaseDelta_Swapped(quality) == 10 - (5 - quality) * (2 + (5 - quality) * 8)

\* 0.1 - (5 - q) * (0.08 + (5 - q) * 0.02), in hundredths.
EaseDelta(quality) == 10 - (5 - quality) * (8 + (5 - quality) * 2)

\* The interval returned without Math.min(newInterval, 60).
CapInterval_Uncapped(newInterval) == newInterval

\* interval: Math.min(newInterval, 60)
CapInterval(newInterval) == Min(newInterval, MaxIntervalDays)

\* calculateNextReview with the relearn test quality < 2 instead of < 3.
calculateNextReview_WrongThreshold(quality, previousInterval, easeFactor) ==
  IF quality < PassQuality - 1
  THEN [interval |-> 1, easeFactor |-> RelearnEaseFactor(easeFactor)]
  ELSE LET newInterval == NewInterval(previousInterval, easeFactor)
           newEaseFactor == easeFactor + EaseDelta(quality)
       IN  [interval   |-> CapInterval(newInterval),
            easeFactor |-> Max(MinEaseFactor, newEaseFactor)]

\* calculateNextReview(quality, previousInterval, easeFactor)
calculateNextReview(quality, previousInterval, easeFactor) ==
  IF quality < PassQuality
  THEN [interval |-> 1, easeFactor |-> RelearnEaseFactor(easeFactor)]
  ELSE LET newInterval == NewInterval(previousInterval, easeFactor)
           newEaseFactor == easeFactor + EaseDelta(quality)
       IN  [interval   |-> CapInterval(newInterval),
            easeFactor |-> Max(MinEaseFactor, newEaseFactor)]

\* --------------------------------------------------------------- priority

\* The priority with the time term left uncapped (no Math.min(..., 30)).
calculatePriority_Uncapped(stats, now) ==
  LET timeTerm ==
        IF stats = None \/ Get(stats).lastReviewed = None
        THEN 50
        ELSE MathFloorDiv(now - Get(Get(stats).lastReviewed), TicksPerDay) * 2
      masteryTerm ==
        IF stats # None /\ Get(stats).masteryScore < 50 * MasteryUnit
        THEN 20 ELSE 0
      dueTerm ==
        IF stats # None /\ Get(stats).dueDate # None
                        /\ Get(Get(stats).dueDate) <= now
        THEN 25 ELSE 0
  IN  timeTerm + masteryTerm + dueTerm

\* calculatePriority(_paper, stats), with Date.now() as the parameter now.
\* stats is None for a paper without a record (stats?. short-circuits).
calculatePriority(stats, now) ==
  LET timeTerm ==
        IF stats = None \/ Get(stats).lastReviewed = None
        THEN 50
        ELSE LET daysSince ==
                   MathFloorDiv(now - Get(Get(stats).lastReviewed), TicksPerDay)
             IN  Min(daysSince * 2, 30)
      masteryTerm ==
        IF stats # None /\ Get(stats).masteryScore < 50 * MasteryUnit
        THEN 20 ELSE 0
      dueTerm ==
        IF stats # None /\ Get(stats).dueDate # None
                        /\ Get(Get(stats).dueDate) <= now
        THEN 25 ELSE 0
  IN  timeTerm + masteryTerm + dueTerm

\* getStatusBadge(stats, priority): the label of the paper's single badge.
getStatusBadge(stats, priority) ==
  LET mastery == IF stats = None THEN 0 ELSE Get(stats).masteryScore
  IN  IF stats = None \/ Get(stats).lastReviewed = None THEN "New"
      ELSE IF priority > 60 THEN "Due"
      ELSE IF mastery < 50 * MasteryUnit THEN "Weak"
      ELSE IF priority > 40 THEN "Soon"
      ELSE "Good"

\* needsReview with the priority test lowered to 30.
needsReview_From30(stats, priority) ==
  LET isNew == stats = None \/ Get(stats).lastReviewed = None
      mastery == IF stats = None THEN 0 ELSE Get(stats).masteryScore
  IN  isNew \/ mastery < 50 * MasteryUnit \/ priority >= 30

\* needsReview of filteredPapers: whether the 'Needs review only' filter
\* keeps a paper with these stats and this priority.
needsReview(stats, priority) ==
  LET isNew == stats = None \/ Get(stats).lastReviewed = None
      mastery == IF stats = None THEN 0 ELSE Get(stats).masteryScore
  IN  isNew \/ mastery < 50 * MasteryUnit \/ priority >= 40

\* ------------------------------------------------------------ app: data

\* Papers in the Notion database.
MaxPapers == 1

\* state.papers in list order (the order of the loops over papers); the ids
\* are Notion page ids.
PaperList == SubSeq(<<"p1", "p2", "p3">>, 1, MaxPapers)

\* The papers of the Notion database (INITIAL_PAPERS holds the same pages).
Papers == { PaperList[i] : i \in 1 .. MaxPapers }

\* A JS object keyed by paper id is a function on a subset of Papers.
EmptyMap == [p \in {} |-> None]

\* obj[key] = value
Put(obj, key, value) ==
  [k \in DOMAIN obj \cup {key} |-> IF k = key THEN value ELSE obj[k]]

\* obj[key], None when the key is missing
Lookup(obj, key) == IF key \in DOMAIN obj THEN Some(obj[key]) ELSE None

\* { reviewCount: 0, masteryScore: 0, easeFactor: 2.5, interval: 0 }
DefaultStats ==
  [lastReviewed |-> None, masteryScore |-> 0, reviewCount |-> 0,
   easeFactor |-> DefaultEaseFactor, interval |-> 0, dueDate |-> None]

\* const quality = Math.round((overallScore / 100) * 5)
QualityOf(overallScore) == MathRoundDiv(overallScore * 5, 100)

\* (currentStats.masteryScore * 0.7) + (overallScore * 0.3)
BlendMastery(masteryScore, overallScore) ==
  (7 * masteryScore + 3 * overallScore * MasteryUnit) \div 10

\* saveSession's new record, written without lastReviewed.
UpdatedStats_NoLastReviewed(currentStats, overallScore, now) ==
  LET quality == QualityOf(overallScore)
      sr == calculateNextReview(quality, currentStats.interval,
                                currentStats.easeFactor)
  IN  [lastReviewed |-> currentStats.lastReviewed,
       reviewCount  |-> currentStats.reviewCount + 1,
       masteryScore |-> BlendMastery(currentStats.masteryScore, overallScore),
       easeFactor   |-> sr.easeFactor,
       interval     |-> sr.interval,
       dueDate      |-> Some(now + sr.interval * TicksPerDay)]

\* saveSession's new record with the due date counted from the interval the
\* record had before the session.
UpdatedStats_DueFromOldInterval(currentStats, overallScore, now) ==
  LET quality == QualityOf(overallScore)
      sr == calculateNextReview(quality, currentStats.interval,
                                currentStats.easeFactor)
  IN  [lastReviewed |-> Some(now),
       reviewCount  |-> currentStats.reviewCount + 1,
       masteryScore |-> BlendMastery(currentStats.masteryScore, overallScore),
       easeFactor   |-> sr.easeFactor,
       interval     |-> sr.interval,
       dueDate      |-> Some(now + currentStats.interval * TicksPerDay)]

\* saveSession: stats[paperId] = { ...currentStats, lastReviewed, ... }; the
\* two clock reads of this synchronous block fall in the same tick.
UpdatedStats(currentStats, overallScore, now) ==
  LET quality == QualityOf(overallScore)
      sr == calculateNextReview(quality, currentStats.interval,
                                currentStats.easeFactor)
  IN  [lastReviewed |-> Some(now),
       reviewCount  |-> currentStats.reviewCount + 1,
       masteryScore |-> BlendMastery(currentStats.masteryScore, overallScore),
       easeFactor   |-> sr.easeFactor,
       interval     |-> sr.interval,
       dueDate      |-> Some(now + sr.interval * TicksPerDay)]

\* Math.round(newMasteryScore), as sent to Notion (a plain number)
RoundedMastery(masteryScore) == MathRoundDiv(masteryScore, MasteryUnit)

\* A Notion page's three optional statistics properties.
BlankPage ==
  [lastReviewed |-> None, masteryScore |-> None, reviewCount |-> None]

\* POST /api/papers/:id/reset: Mastery Score 0, Review Count 0, date cleared
ResetPage ==
  [lastReviewed |-> None, masteryScore |-> Some(0), reviewCount |-> Some(0)]

\* The server's notionStats of a page: undefined unless a property exists.
NotionStatsOf(page) ==
  IF \/ page.lastReviewed # None
     \/ page.masteryScore # None
     \/ page.reviewCount # None
  THEN Some(page) ELSE None

\* JS truthiness of an optional number
TruthyNumber(o) == o # None /\ Get(o) # 0

\* notionStats.masteryScore ?? fallback, in mastery units
MasteryOr(o, fallback) == IF o # None THEN Get(o) * MasteryUnit ELSE fallback

\* x ? new Date(x).getTime() : 0
DateMs(o) == IF o # None THEN Get(o) ELSE 0

\* The record loadData creates for a paper without local stats.
ImportedStats(ns) ==
  [lastReviewed |-> ns.lastReviewed,
   masteryScore |-> MasteryOr(ns.masteryScore, 0),
   reviewCount  |-> IF ns.reviewCount # None THEN Get(ns.reviewCount) ELSE 0,
   easeFactor   |-> DefaultEaseFactor,
   interval     |-> 1,
   dueDate      |-> None]

\* notionDate > localDate
NotionIsNewer(existingStats, ns) ==
  DateMs(ns.lastReviewed) > DateMs(existingStats.lastReviewed)

\* MergedStats that also restarts the schedule, as the import of a paper
\* without a local record does.
MergedStats_RestartsSchedule(existingStats, ns) ==
  [existingStats EXCEPT
     !.lastReviewed = ns.lastReviewed,
     !.masteryScore = MasteryOr(ns.masteryScore, existingStats.masteryScore),
     !.reviewCount  = IF ns.reviewCount # None THEN Get(ns.reviewCount)
                      ELSE existingStats.reviewCount,
     !.easeFactor   = DefaultEaseFactor,
     !.interval     = 1]

\* { ...existingStats, lastReviewed, masteryScore, reviewCount } from Notion
MergedStats(existingStats, ns) ==
  [existingStats EXCEPT
     !.lastReviewed = ns.lastReviewed,
     !.masteryScore = MasteryOr(ns.masteryScore, existingStats.masteryScore),
     !.reviewCount  = IF ns.reviewCount # None THEN Get(ns.reviewCount)
                      ELSE existingStats.reviewCount]

\* What the merge loop leaves at mergedStats[paper.id]: None for no entry.
MergeOne(existing, page) ==
  LET nso == NotionStatsOf(page)
  IN  IF nso = None THEN existing
      ELSE LET ns == Get(nso)
           IN  IF existing = None
               THEN IF \/ ns.lastReviewed # None
                       \/ TruthyNumber(ns.masteryScore)
                       \/ TruthyNumber(ns.reviewCount)
                    THEN Some(ImportedStats(ns))
                    ELSE None
               ELSE IF NotionIsNewer(Get(existing), ns)
                    THEN Some(MergedStats(Get(existing), ns))
                    ELSE existing

\* loadData's mergedStats for the fetched pages (one page per paper).
MergeNotionStats(localStats, pages) ==
  LET merged == [p \in Papers |-> MergeOne(Lookup(localStats, p), pages[p])]
  IN  [p \in {q \in Papers : merged[q] # None} |-> Get(merged[p])]

\* --------------------------------------------------------- app: reducer

\* const initialState: AppState (loadingMessage and error are not modelled:
\* no transition reads them).
initialState ==
  [screen |-> "home", papers |-> "initial", paperStats |-> EmptyMap,
   currentPaper |-> None, flashcards |-> <<>>, currentCardIndex |-> 0,
   answers |-> <<>>, sessionHistory |-> <<>>, isLoading |-> FALSE,
   isAnswered |-> FALSE, isEvaluating |-> FALSE]

\* newAnswers[index] = payload on a copy of the array (holes are None)
SetAt(arr, index, payload) ==
  [i \in 1 .. Max(Len(arr), index + 1) |->
     IF i = index + 1 THEN Some(payload)
     ELSE IF i <= Len(arr) THEN arr[i] ELSE None]

\* arr[index] !== undefined
Defined(arr, index) == index + 1 <= Len(arr) /\ arr[index + 1] # None

\* function reducer(state, action)
reducer(state, action) ==
  CASE action.type = "SET_LOADING" ->
         [state EXCEPT !.isLoading = action.payload]
    [] action.type = "SET_ERROR" ->
         [state EXCEPT !.isLoading = FALSE]
    [] action.type = "SET_EVALUATING" ->
         [state EXCEPT !.isEvaluating = action.payload]
    [] action.type = "SET_PAPERS" ->
         [state EXCEPT !.papers = action.payload, !.isLoading = FALSE]
    [] action.type = "SET_PAPER_STATS" ->
         [state EXCEPT !.paperStats = action.payload]
    [] action.type = "SET_SESSION_HISTORY" ->
         [state EXCEPT !.sessionHistory = action.payload]
    [] action.type = "SELECT_PAPER" ->
         [state EXCEPT !.currentPaper = Some(action.payload),
                       !.screen = "loading"]
    [] action.type = "SET_FLASHCARDS" ->
         [state EXCEPT !.flashcards = action.payload, !.currentCardIndex = 0,
                       !.answers = <<>>, !.screen = "review",
                       !.isLoading = FALSE, !.isAnswered = FALSE,
                       !.isEvaluating = FALSE]
    [] action.type = "MARK_ANSWERED" ->
         [state EXCEPT !.isAnswered = TRUE, !.isEvaluating = FALSE]
    [] action.type = "SAVE_ANSWER" ->
         [state EXCEPT !.answers =
            SetAt(state.answers, state.currentCardIndex, action.payload)]
    [] action.type = "NEXT_CARD" ->
         IF state.currentCardIndex >= Len(state.flashcards) - 1
         THEN [state EXCEPT !.screen = "summary", !.isEvaluating = FALSE]
         ELSE [state EXCEPT !.currentCardIndex = state.currentCardIndex + 1,
                            !.isAnswered = FALSE, !.isEvaluating = FALSE]
    [] action.type = "PREV_CARD" ->
         [state EXCEPT
            !.currentCardIndex = Max(0, state.currentCardIndex - 1),
            !.isAnswered =
               Defined(state.answers, Max(0, state.currentCardIndex - 1)),
            !.isEvaluating = FALSE]
    [] action.type = "SET_SCREEN" ->
         [state EXCEPT !.screen = action.payload, !.isAnswered = FALSE,
                       !.isEvaluating = FALSE]
    [] action.type = "RESET_SESSION" ->
         [state EXCEPT !.currentPaper = None, !.flashcards = <<>>,
                       !.currentCardIndex = 0, !.answers = <<>>,
                       !.screen = "home", !.isAnswered = FALSE,
                       !.isEvaluating = FALSE]
    [] OTHER -> state

\* An action object; payload is unused by the types that carry none.
Action(type, payload) == [type |-> type, payload |-> payload]

\* ------------------------------------------------------------------ state

VARIABLES
  now,              \* the wall clock (Date.now()), in ticks
  storedStats,      \* localStorage 'paper-stats': None, or Some(stats object)
  storedSessions,   \* localStorage 'sessions:*' entries, oldest first
  storedFlashcards, \* localStorage 'flashcards:*': paper id -> cached cards
  notion,           \* the Notion database: paper id -> page properties
  state,            \* the reducer's AppState
  load,             \* loadData: [pc, localStats]
  gen,              \* startReview calls awaiting generateFlashcards
  evals,            \* handleSubmitAnswer calls awaiting evaluateAnswer
  syncs,            \* saveSession calls awaiting updatePaperStats
  reset,            \* handleResetProgress: [pc, index], and done: has one finished
  saved,            \* how many times saveSession has run
  slots,            \* how many requests this run lets be in flight at a time
  srArgs,     \* the arguments of a direct call of calculateNextReview, or None
  srResult,   \* what that call returned, None before it returns
  prArgs,     \* the arguments of a direct call of calculatePriority, or None
  prResult    \* what that call returned, None before it returns

probeVars == <<srArgs, srResult, prArgs, prResult>>

storageVars == <<storedStats, storedSessions, storedFlashcards>>

appVars ==
  <<now, storageVars, notion, state, load, gen, evals, syncs, reset, saved,
    slots>>

vars == <<appVars, probeVars>>

\* No direct call of either function is under way.
NoProbe ==
  /\ srArgs = None
  /\ srResult = None
  /\ prArgs = None
  /\ prResult = None

\* ------------------------------------------------------------ app: bounds

\* The clock stops at MaxNow.
MaxNow == 3

\* Sessions saved in a run.
MaxSessions == 1

\* Cards in a generated quiz (CARDS_PER_SESSION is 6 in the source).
MaxCards == 2

\* Requests in flight at a time (one more where two requests overlap).
MaxInFlight == 1

\* Scores evaluateAnswer() resolves with (0..100): 50 is a score below the
\* pass mark of 70 and also what the client returns when the request fails
\* (evaluateAnswer never rejects).
EvalScores == {50}

\* The quiz generateFlashcards returns for a paper: the question mix the
\* prompt requires, one multiple-choice question followed by open-ended
\* ones, each about that paper.
GeneratedCards(paper) ==
  [i \in 1 .. MaxCards |->
     [questionType |-> IF i = 1 THEN "mcq" ELSE "open-ended",
      paper |-> paper]]

\* ------------------------------------------------------- app: first state

\* n earlier sessions of one score, each saved at tick t: what an earlier
\* run of the app left in localStorage.
RECURSIVE StatsAfter(_, _, _)
StatsAfter(n, overallScore, t) ==
  IF n = 0 THEN DefaultStats
  ELSE UpdatedStats(StatsAfter(n - 1, overallScore, t), overallScore, t)

\* The session entries those n sessions left.
SessionsAfter(n, overallScore) ==
  [i \in 1 .. n |-> [paperId |-> Some("p1"), overallScore |-> overallScore]]

\* localStorage when the app starts: nothing (first run), or p1 after six
\* failed sessions, or p1 after four perfect sessions.
InitialStorage ==
  { [stats |-> None, sessions |-> <<>>],
    [stats    |-> Some("p1" :> StatsAfter(6, 0, 1)),
     sessions |-> SessionsAfter(6, 0)],
    [stats    |-> Some("p1" :> StatsAfter(4, 100, 1)),
     sessions |-> SessionsAfter(4, 100)] }

\* A page whose Mastery Score was typed in by hand in Notion.
HandEditedPage ==
  [lastReviewed |-> None, masteryScore |-> Some(40), reviewCount |-> None]

\* A page synced from another browser at tick 3.
SyncedPage ==
  [lastReviewed |-> Some(3), masteryScore |-> Some(80), reviewCount |-> Some(3)]

\* The Notion database when the app starts: p1 without statistics, edited by
\* hand or synced from elsewhere, any other paper edited by hand.
InitialNotion ==
  { [p \in Papers |-> IF p = "p1" THEN page ELSE HandEditedPage] :
      page \in {BlankPage, HandEditedPage, SyncedPage} }

\* The app as constructed, given what localStorage and Notion hold.
Constructed(stored, pages, requests) ==
  /\ now = 2
  /\ storedStats = stored.stats
  /\ storedSessions = stored.sessions
  /\ storedFlashcards = EmptyMap
  /\ notion = pages
  /\ state = initialState
  /\ load = [pc |-> "start", localStats |-> EmptyMap]
  /\ gen = <<>>
  /\ evals = <<>>
  /\ syncs = <<>>
  /\ reset = [pc |-> "idle", index |-> 0, done |-> FALSE]
  /\ saved = 0
  /\ slots = requests

InitApp ==
  \E stored \in InitialStorage, pages \in InitialNotion :
     Constructed(stored, pages, MaxInFlight)

\* The app on its first run, where the two functions are called directly.
InitFresh ==
  Constructed([stats |-> None, sessions |-> <<>>], [p \in Papers |-> BlankPage],
              MaxInFlight)

Init == InitApp /\ NoProbe

\* ------------------------------------------------------------ app: steps

\* The sequence without its k-th element.
Without(seq, k) ==
  [i \in 1 .. Len(seq) - 1 |-> IF i < k THEN seq[i] ELSE seq[i + 1]]

\* The user can act: the mount effect has run and no reset modal is busy.
UserCanAct == load.pc # "start" /\ reset.pc = "idle"

\* Requests sent and not yet settled.
InFlight ==
  Len(gen) + Len(evals) + Len(syncs)
  + (IF load.pc \in {"health", "fetch"} THEN 1 ELSE 0)
  + (IF reset.pc = "notion" THEN 1 ELSE 0)

\* Time passes.
Tick ==
  /\ now < MaxNow
  /\ now' = now + 1
  /\ UNCHANGED <<slots, probeVars, saved, storageVars, notion, state, load, gen, evals,
                 syncs, reset>>

\* loadData up to its first network call: local stats and session history
\* are read and dispatched, then checkHealth() is awaited.
LoadStart ==
  /\ load.pc = "start"
  /\ LET localStats == IF storedStats # None THEN Get(storedStats) ELSE EmptyMap
         s1 == reducer(state, Action("SET_PAPER_STATS", localStats))
         s2 == reducer(s1, Action("SET_SESSION_HISTORY", storedSessions))
     IN  /\ state' = s2
         /\ load' = [pc |-> "health", localStats |-> localStats]
  /\ UNCHANGED <<slots, probeVars, now, saved, storageVars, notion, gen, evals,
                 syncs, reset>>

\* checkHealth() resolves: true (fetchPapers is awaited next) or false.
LoadHealth ==
  /\ load.pc = "health"
  /\ \/ /\ state' = reducer(state, Action("SET_LOADING", TRUE))
        /\ load' = [load EXCEPT !.pc = "fetch"]
     \/ /\ load' = [load EXCEPT !.pc = "done"]
        /\ UNCHANGED state
  /\ UNCHANGED <<slots, probeVars, now, saved, storageVars, notion, gen, evals,
                 syncs, reset>>

\* fetchPapers() throws: the catch block clears the loading flag.
LoadFetchFails ==
  /\ load.pc = "fetch"
  /\ state' = reducer(state, Action("SET_LOADING", FALSE))
  /\ load' = [load EXCEPT !.pc = "done"]
  /\ UNCHANGED <<slots, probeVars, now, saved, storageVars, notion, gen, evals,
                 syncs, reset>>

\* fetchPapers() resolves with an empty list: nothing is dispatched.
LoadFetchEmpty ==
  /\ load.pc = "fetch"
  /\ load' = [load EXCEPT !.pc = "done"]
  /\ UNCHANGED <<slots, probeVars, now, saved, storageVars, notion, state, gen,
                 evals, syncs, reset>>

\* fetchPapers() resolves with the pages: SET_PAPERS, then the Notion
\* statistics are merged into the stats read at start-up and, if anything
\* changed, saved and dispatched.
LoadFetchPapers ==
  /\ load.pc = "fetch"
  /\ LET mergedStats == MergeNotionStats(load.localStats, notion)
         statsUpdated == mergedStats # load.localStats
         s1 == reducer(state, Action("SET_PAPERS", "notion"))
     IN  IF statsUpdated
         THEN /\ storedStats' = Some(mergedStats)
              /\ state' = reducer(s1, Action("SET_PAPER_STATS", mergedStats))
         ELSE /\ state' = s1
              /\ UNCHANGED storedStats
  /\ load' = [load EXCEPT !.pc = "done"]
  /\ UNCHANGED <<slots, probeVars, now, saved, storedSessions, storedFlashcards,
                 notion, gen, evals, syncs, reset>>

\* The page is reloaded: the component is constructed again, its pending
\* continuations are gone; requests already sent still reach the server.
Reload ==
  /\ Len(syncs) < slots
  /\ state' = initialState
  /\ load' = [pc |-> "start", localStats |-> EmptyMap]
  /\ gen' = <<>>
  /\ evals' = <<>>
  /\ syncs' = [i \in 1 .. Len(syncs) |-> [syncs[i] EXCEPT !.orphan = TRUE]]
  /\ reset' = [pc |-> "idle", index |-> 0, done |-> reset.done]
  /\ UNCHANGED <<slots, probeVars, now, saved, storageVars, notion>>

\* The card shown on the review screen can be answered.
CardShown ==
  /\ UserCanAct
  /\ state.screen = "review"
  /\ Len(state.flashcards) > 0
  /\ ~state.isLoading
  /\ state.currentCardIndex + 1 <= Len(state.flashcards)

\* startReview(paper, forceRegenerate): SELECT_PAPER, then the cached cards
\* are installed at once, or generateFlashcards() is awaited.
startReview(paper, forceRegenerate) ==
  /\ LET s1 == reducer(state, Action("SELECT_PAPER", paper))
     IN  IF ~forceRegenerate /\ paper \in DOMAIN storedFlashcards
         THEN /\ state' = reducer(s1, Action("SET_FLASHCARDS",
                                             storedFlashcards[paper]))
              /\ UNCHANGED gen
         ELSE /\ InFlight < slots
              /\ state' = reducer(s1, Action("SET_LOADING", TRUE))
              /\ gen' = Append(gen, paper)
  /\ UNCHANGED <<slots, probeVars, now, saved, storageVars, notion, load, evals,
                 syncs, reset>>

\* Home screen: Start Quiz on the selected paper.
StartQuiz ==
  /\ UserCanAct
  /\ state.screen = "home"
  /\ ~state.isLoading
  /\ \E paper \in Papers : startReview(paper, FALSE)

\* Summary screen: Try Again.
ReviewAgain ==
  /\ UserCanAct
  /\ state.screen = "summary"
  /\ state.currentPaper # None
  /\ startReview(Get(state.currentPaper), FALSE)

\* Review screen: New Questions.
NewQuestions ==
  /\ UserCanAct
  /\ state.screen = "review"
  /\ Len(state.flashcards) > 0
  /\ state.currentPaper # None
  /\ startReview(Get(state.currentPaper), TRUE)

\* generateFlashcards() resolves: SET_FLASHCARDS, and the cards are cached.
GenerateDone ==
  \E k \in 1 .. Len(gen) :
    /\ state' = reducer(state, Action("SET_FLASHCARDS",
                                       GeneratedCards(gen[k])))
    /\ storedFlashcards' = Put(storedFlashcards, gen[k],
                               GeneratedCards(gen[k]))
    /\ gen' = Without(gen, k)
    /\ UNCHANGED <<slots, probeVars, now, saved, storedStats, storedSessions, notion,
                   load, evals, syncs, reset>>

\* generateFlashcards() throws: SET_ERROR, then SET_SCREEN home.
GenerateFails ==
  \E k \in 1 .. Len(gen) :
    /\ state' = reducer(reducer(state, Action("SET_ERROR", "message")),
                        Action("SET_SCREEN", "home"))
    /\ gen' = Without(gen, k)
    /\ UNCHANGED <<slots, probeVars, now, saved, storageVars, notion, load, evals,
                   syncs, reset>>

\* handleSubmitAnswer, first click on a multiple-choice card.
SubmitMCQ ==
  /\ CardShown
  /\ state.flashcards[state.currentCardIndex + 1].questionType = "mcq"
  /\ ~state.isAnswered
  /\ \E isCorrect \in BOOLEAN :
       LET payload == [score |-> IF isCorrect THEN 100 ELSE 0,
                       isCorrect |-> isCorrect, feedback |-> FALSE]
       IN  state' = reducer(reducer(state, Action("SAVE_ANSWER", payload)),
                            Action("MARK_ANSWERED", None))
  /\ UNCHANGED <<slots, probeVars, now, saved, storageVars, notion, load, gen, evals,
                 syncs, reset>>

\* The score of the fallback response evaluateAnswer() returns when the
\* request fails.
FallbackScore == 50

\* What evaluateAnswer() resolves with: the server's evaluation, or, when
\* the request fails (network error or non-OK response), the fallback
\* response; it never rejects. feedback tells whether a feedback object
\* is present.
evaluateAnswer(fails, score) ==
  IF fails THEN [score |-> FallbackScore, feedback |-> TRUE]
  ELSE [score |-> score, feedback |-> TRUE]

\* handleSubmitAnswer, first click on an open-ended card: SET_EVALUATING,
\* then evaluateAnswer() is awaited; fails tells whether the request sent
\* is one that will fail.
SubmitOpenEnded ==
  /\ CardShown
  /\ state.flashcards[state.currentCardIndex + 1].questionType = "open-ended"
  /\ ~state.isAnswered
  /\ ~state.isEvaluating
  /\ InFlight < slots
  /\ state' = reducer(state, Action("SET_EVALUATING", TRUE))
  /\ \E fails \in BOOLEAN :
       evals' = Append(evals, [card |-> state.currentCardIndex,
                               fails |-> fails])
  /\ UNCHANGED <<slots, probeVars, now, saved, storageVars, notion, load, gen, syncs,
                 reset>>

\* evaluateAnswer() resolves: SAVE_ANSWER, MARK_ANSWERED.
EvaluateDone ==
  \E k \in 1 .. Len(evals), score \in EvalScores :
    LET evaluation == evaluateAnswer(evals[k].fails, score)
        payload == [score |-> evaluation.score,
                    isCorrect |-> evaluation.score >= 70,
                    feedback |-> evaluation.feedback]
    IN  /\ state' = reducer(reducer(state, Action("SAVE_ANSWER", payload)),
                            Action("MARK_ANSWERED", None))
        /\ evals' = Without(evals, k)
        /\ UNCHANGED <<slots, probeVars, now, saved, storageVars, notion, load, gen,
                       syncs, reset>>

\* state.answers.reduce((sum, a) => sum + (a?.score || 0), 0)
RECURSIVE TotalScore(_)
TotalScore(answers) ==
  IF answers = <<>> THEN 0
  ELSE (IF Head(answers) # None THEN Get(Head(answers)).score ELSE 0)
       + TotalScore(Tail(answers))

\* Math.round(totalScore / state.answers.length)
OverallScore(answers) == MathRoundDiv(TotalScore(answers), Len(answers))

\* saveSession() as called by the effect of the render s: the session is
\* stored, the paper's stats are updated, saved and dispatched, and
\* updatePaperStats() is awaited.
saveSession(s) ==
  LET overallScore == OverallScore(s.answers)
      session == [paperId |-> s.currentPaper, overallScore |-> overallScore]
      newHistory == Append(s.sessionHistory, session)
  IN  /\ storedSessions' = Append(storedSessions, session)
      /\ IF s.currentPaper # None
         THEN LET paperId == Get(s.currentPaper)
                  currentStats == IF paperId \in DOMAIN s.paperStats
                                  THEN s.paperStats[paperId] ELSE DefaultStats
                  newStats == UpdatedStats(currentStats, overallScore, now)
                  stats == Put(s.paperStats, paperId, newStats)
              IN  /\ storedStats' = Some(stats)
                  /\ state' = reducer(s, Action("SET_PAPER_STATS", stats))
                  /\ syncs' = Append(syncs,
                       [paperId |-> paperId,
                        lastReviewed |-> now,
                        masteryScore |-> RoundedMastery(newStats.masteryScore),
                        reviewCount |-> newStats.reviewCount,
                        newHistory |-> newHistory,
                        orphan |-> FALSE])
         ELSE /\ state' = reducer(s, Action("SET_SESSION_HISTORY", newHistory))
              /\ UNCHANGED <<storedStats, syncs>>

\* handleSubmitAnswer, second click: NEXT_CARD; reaching the summary screen
\* with an answer runs the save effect.
NextCard ==
  /\ CardShown
  /\ state.isAnswered
  /\ LET s1 == reducer(state, Action("NEXT_CARD", None))
     IN  IF s1.screen = "summary" /\ Len(s1.answers) > 0
         THEN /\ saved < MaxSessions
              /\ InFlight < slots
              /\ saveSession(s1)
              /\ saved' = saved + 1
         ELSE /\ state' = s1
              /\ UNCHANGED <<storedStats, storedSessions, syncs, saved>>
  /\ UNCHANGED <<slots, probeVars, now, storedFlashcards, notion, load, gen, evals,
                 reset>>

\* Review screen: Previous (disabled on the first card).
PrevCard ==
  /\ UserCanAct
  /\ state.screen = "review"
  /\ Len(state.flashcards) > 0
  /\ state.currentCardIndex # 0
  /\ state' = reducer(state, Action("PREV_CARD", None))
  /\ UNCHANGED <<slots, probeVars, now, saved, storageVars, notion, load, gen, evals,
                 syncs, reset>>

\* Review screen: Exit Quiz; summary screen: New Paper or End.
ExitQuiz ==
  /\ UserCanAct
  /\ \/ state.screen = "review" /\ Len(state.flashcards) > 0
     \/ state.screen = "summary"
  /\ state' = reducer(state, Action("RESET_SESSION", None))
  /\ UNCHANGED <<slots, probeVars, now, saved, storageVars, notion, load, gen, evals,
                 syncs, reset>>

\* Header: Home or History (and Back on the history screen).
Navigate ==
  /\ UserCanAct
  /\ \E screen \in {"home", "history"} :
       /\ state.screen # screen
       /\ state' = reducer(state, Action("SET_SCREEN", screen))
  /\ UNCHANGED <<slots, probeVars, now, saved, storageVars, notion, load, gen, evals,
                 syncs, reset>>

\* SyncDone with the history dispatch inside the try block: a failed sync
\* skips it.
SyncDone_FailureSkipsHistory ==
  \E k \in 1 .. Len(syncs), ok \in BOOLEAN :
    LET r == syncs[k]
    IN  /\ notion' = IF ok
                     THEN [notion EXCEPT ![r.paperId] =
                             [lastReviewed |-> Some(r.lastReviewed),
                              masteryScore |-> Some(r.masteryScore),
                              reviewCount  |-> Some(r.reviewCount)]]
                     ELSE notion
        /\ state' = IF r.orphan \/ ~ok THEN state
                    ELSE reducer(state, Action("SET_SESSION_HISTORY",
                                               r.newHistory))
        /\ syncs' = Without(syncs, k)
        /\ UNCHANGED <<slots, probeVars, now, saved, storageVars, load, gen,
                       evals, reset>>

\* updatePaperStats() settles: on success the page holds the three values
\* sent; either way saveSession then dispatches its session history.
SyncDone ==
  \E k \in 1 .. Len(syncs), ok \in BOOLEAN :
    LET r == syncs[k]
    IN  /\ notion' = IF ok
                     THEN [notion EXCEPT ![r.paperId] =
                             [lastReviewed |-> Some(r.lastReviewed),
                              masteryScore |-> Some(r.masteryScore),
                              reviewCount  |-> Some(r.reviewCount)]]
                     ELSE notion
        /\ state' = IF r.orphan THEN state
                    ELSE reducer(state, Action("SET_SESSION_HISTORY",
                                               r.newHistory))
        /\ syncs' = Without(syncs, k)
        /\ UNCHANGED <<slots, probeVars, now, saved, storageVars, load, gen, evals,
                       reset>>

\* The two dispatches that end handleResetProgress.
ResetDispatched(s) ==
  reducer(reducer(s, Action("SET_PAPER_STATS", EmptyMap)),
          Action("SET_SESSION_HISTORY", <<>>))

\* handleResetProgress: local storage is cleared; without the Notion option
\* the state is cleared at once, with it resetPaperStats() is awaited paper
\* by paper.
ResetBegin ==
  /\ UserCanAct
  /\ storedStats' = None
  /\ storedSessions' = <<>>
  /\ storedFlashcards' = EmptyMap
  /\ \E resetNotionToo \in BOOLEAN :
       IF resetNotionToo
       THEN /\ InFlight < slots
            /\ reset' = [reset EXCEPT !.pc = "notion", !.index = 1]
            /\ UNCHANGED state
       ELSE /\ state' = ResetDispatched(state)
            /\ reset' = [reset EXCEPT !.done = TRUE]
  /\ UNCHANGED <<slots, probeVars, now, saved, notion, load, gen, evals, syncs>>

\* resetPaperStats(paper.id) settles for the next paper; after the last one
\* the state is cleared.
ResetNotionStep ==
  /\ reset.pc = "notion"
  /\ \E success \in BOOLEAN :
       notion' = IF success
                 THEN [notion EXCEPT ![PaperList[reset.index]] = ResetPage]
                 ELSE notion
  /\ IF reset.index = Len(PaperList)
     THEN /\ state' = ResetDispatched(state)
          /\ reset' = [pc |-> "idle", index |-> 0, done |-> TRUE]
     ELSE /\ reset' = [reset EXCEPT !.index = reset.index + 1]
          /\ UNCHANGED state
  /\ UNCHANGED <<slots, probeVars, now, saved, storageVars, load, gen, evals, syncs>>

Next ==
  \/ Tick
  \/ LoadStart
  \/ LoadHealth
  \/ LoadFetchFails
  \/ LoadFetchEmpty
  \/ LoadFetchPapers
  \/ Reload
  \/ StartQuiz
  \/ ReviewAgain
  \/ NewQuestions
  \/ GenerateDone
  \/ GenerateFails
  \/ SubmitMCQ
  \/ SubmitOpenEnded
  \/ EvaluateDone
  \/ NextCard
  \/ PrevCard
  \/ ExitQuiz
  \/ Navigate
  \/ SyncDone
  \/ ResetBegin
  \/ ResetNotionStep

Spec == Init /\ [][Next]_vars

\* The same app on its first run, where a second request may be sent while
\* one is still in flight (a slow start-up load, a quiz started twice).
InitOverlap ==
  /\ Constructed([stats |-> None, sessions |-> <<>>],
                 [p \in Papers |-> BlankPage], MaxInFlight + 1)
  /\ NoProbe

SpecOverlap == InitOverlap /\ [][Next]_vars

\* One visit of the app, from its construction on, without reload or reset:
\* the start-up load, quizzes and their requests, two of which may overlap.
\* localStorage is empty or holds p1's record after four perfect sessions;
\* the Notion page of p1 was edited by hand or synced from elsewhere.
InitVisit ==
  /\ \E stored \in { [stats |-> None, sessions |-> <<>>],
                      [stats    |-> Some("p1" :> StatsAfter(4, 100, 1)),
                       sessions |-> SessionsAfter(4, 100)] },
        page \in {HandEditedPage, SyncedPage} :
       Constructed(stored, [p \in Papers |-> page], MaxInFlight + 1)
  /\ NoProbe

NextVisit ==
  \/ Tick
  \/ LoadStart
  \/ LoadHealth
  \/ LoadFetchFails
  \/ LoadFetchEmpty
  \/ LoadFetchPapers
  \/ StartQuiz
  \/ ReviewAgain
  \/ NewQuestions
  \/ GenerateDone
  \/ GenerateFails
  \/ SubmitMCQ
  \/ SubmitOpenEnded
  \/ EvaluateDone
  \/ NextCard
  \/ PrevCard
  \/ ExitQuiz
  \/ Navigate
  \/ SyncDone

SpecVisit == InitVisit /\ [][NextVisit]_vars

\* ------------------------------------- calculateNextReview called directly

\* Largest timestamp (ticks) handed to calculatePriority as a direct input.
MaxProbeTime == 44

EaseInputs == MinEaseInput .. MaxEaseInput

InitSR ==
  /\ srArgs \in
       { Some([quality |-> q, previousInterval |-> i, easeFactor |-> e]) :
           q \in Qualities, i \in 0 .. MaxPrevInterval, e \in EaseInputs }
  /\ srResult = None
  /\ prArgs = None
  /\ prResult = None
  /\ InitFresh

CallNextReview ==
  /\ srArgs # None
  /\ srResult = None
  /\ srResult' = Some(calculateNextReview(Get(srArgs).quality,
                                          Get(srArgs).previousInterval,
                                          Get(srArgs).easeFactor))
  /\ UNCHANGED <<srArgs, prArgs, prResult, appVars>>

NextSR == CallNextReview

SpecSR == InitSR /\ [][NextSR]_vars

\* How far beyond the valid ranges a direct call's arguments go.
MaxBadInput == 3

\* quality is outside 0..5 or previousInterval is negative.
InvalidInput(args) ==
  \/ args.quality < 0
  \/ args.quality > 5
  \/ args.previousInterval < 0

\* A direct call whose arguments may lie outside the valid ranges.
InitSRInvalid ==
  /\ srArgs \in
       { Some([quality |-> q, previousInterval |-> i, easeFactor |-> e]) :
           q \in (0 - MaxBadInput) .. (5 + MaxBadInput),
           i \in (0 - MaxBadInput) .. MaxBadInput,
           e \in EaseInputs }
  /\ srResult = None
  /\ prArgs = None
  /\ prResult = None
  /\ InitFresh

SpecSRInvalid == InitSRInvalid /\ [][NextSR]_vars

\* --------------------------------------- calculatePriority called directly

\* A stats record as the PaperStats type allows it; the scheduling fields
\* are not read by calculatePriority.
ProbeStats ==
  { [lastReviewed |-> lr, masteryScore |-> m, reviewCount |-> 0,
     easeFactor |-> DefaultEaseFactor, interval |-> 0, dueDate |-> dd] :
      lr \in {None} \cup { Some(t) : t \in 0 .. MaxProbeTime },
      m  \in { 0, 40 * MasteryUnit, 50 * MasteryUnit - 1, 50 * MasteryUnit,
               100 * MasteryUnit },
      dd \in {None}
              \cup { Some(t) : t \in (MaxProbeTime - 5) .. MaxProbeTime } }

InitPriority ==
  /\ prArgs \in { Some([stats |-> st, now |-> n]) :
                    st \in {None} \cup { Some(r) : r \in ProbeStats },
                    n  \in (MaxProbeTime - 3) .. (MaxProbeTime - 2) }
  /\ prResult = None
  /\ srArgs = None
  /\ srResult = None
  /\ InitFresh

CallPriority ==
  /\ prArgs # None
  /\ prResult = None
  /\ prResult' = Some(calculatePriority(Get(prArgs).stats, Get(prArgs).now))
  /\ UNCHANGED <<srArgs, srResult, prArgs, appVars>>

NextPriority == CallPriority

SpecPriority == InitPriority /\ [][NextPriority]_vars

\* ----------------------------------------------------------------- claims

\* The direct call of calculateNextReview has returned.
SRReturned == srArgs # None /\ srResult # None

\* C3: for every quality < 3 calculateNextReview returns interval 1 and
\* easeFactor max(1.3, easeFactor - 0.2), whatever the previous interval;
\* with quality 0 and easeFactor 1.3 it returns 1.3 again.
C3_FailureResets ==
  (SRReturned /\ Get(srArgs).quality < 3) =>
     /\ Get(srResult).interval = 1
     /\ Get(srResult).easeFactor >= 130
     /\ Get(srResult).easeFactor >= Get(srArgs).easeFactor - 20
     /\ Get(srResult).easeFactor \in {130, Get(srArgs).easeFactor - 20}
     /\ (Get(srArgs).quality = 0 /\ Get(srArgs).easeFactor = 130)
           => Get(srResult).easeFactor = 130

\* C3 witness: a failed review of an item with a long interval and an ease
\* factor at the floor has returned.
C3_Witness ==
  /\ SRReturned
  /\ Get(srArgs).quality = 0
  /\ Get(srArgs).previousInterval = 10
  /\ Get(srArgs).easeFactor = 130
  /\ Get(srResult) = [interval |-> 1, easeFactor |-> 130]

\* C4: for every quality >= 3 the interval is 1 after previousInterval 0,
\* 3 after previousInterval 1, and otherwise the integer nearest to
\* previousInterval * easeFactor (halves up) capped at 60;
\* nextReview(4, 3, 2.5) gives interval 8.
C4_SuccessInterval ==
  (SRReturned /\ Get(srArgs).quality >= 3) =>
     LET i == Get(srArgs).previousInterval
         e == Get(srArgs).easeFactor
         r == Get(srResult).interval
     IN  /\ i = 0 => r = 1
         /\ i = 1 => r = 3
         /\ i > 1 =>
              \/ /\ r < 60
                 /\ 100 * (2 * r - 1) <= 2 * i * e
                 /\ 2 * i * e < 100 * (2 * r + 1)
              \/ /\ r = 60
                 /\ 100 * (2 * 60 - 1) <= 2 * i * e
         /\ (Get(srArgs).quality = 4 /\ i = 3 /\ e = 250) => r = 8

\* C4 witness: nextReview(4, 3, 2.5) has returned interval 8 (7.5 rounded up).
C4_Witness ==
  /\ SRReturned
  /\ Get(srArgs) = [quality |-> 4, previousInterval |-> 3, easeFactor |-> 250]
  /\ Get(srResult).interval = 8

\* C5: for every quality >= 3 the returned easeFactor is
\* max(1.3, easeFactor + d) with d = +0.10 for quality 5, 0 for quality 4
\* and -0.14 for quality 3; nextReview(5, 0, 2.5) gives easeFactor 2.6.
C5_SuccessEase ==
  (SRReturned /\ Get(srArgs).quality >= 3) =>
     LET q == Get(srArgs).quality
         e == Get(srArgs).easeFactor
         d == CASE q = 5 -> 10 [] q = 4 -> 0 [] q = 3 -> 0 - 14
         f == Get(srResult).easeFactor
     IN  /\ f >= 130
         /\ f >= e + d
         /\ f \in {130, e + d}
         /\ (q = 5 /\ Get(srArgs).previousInterval = 0 /\ e = 250) => f = 260

\* C5 witness: a quality-3 review has lowered an ease factor of 2.5 to 2.36.
C5_Witness ==
  /\ SRReturned
  /\ Get(srArgs).quality = 3
  /\ Get(srArgs).easeFactor = 250
  /\ Get(srResult).easeFactor = 236

\* The direct call of calculatePriority has returned.
PRReturned == prArgs # None /\ prResult # None

\* The weak-recall bonus as the claims state it.
WeakBonus(stats) ==
  IF stats # None /\ Get(stats).masteryScore < 50 * MasteryUnit THEN 20 ELSE 0

\* C6: with lastReviewed absent (or no record at all) calculatePriority
\* returns 50, plus 20 if masteryScore is defined and below 50; the +25
\* due-date term is never added, whatever dueDate the record holds.
C6_NeverReviewedScore ==
  (PRReturned /\ (Get(prArgs).stats = None
                  \/ Get(Get(prArgs).stats).lastReviewed = None)) =>
     Get(prResult) = 50 + WeakBonus(Get(prArgs).stats)

C8_NonNegativeScore ==
  PRReturned => Get(prResult) >= 0

\* Every per-paper stats record the app holds: in the reducer's state, in
\* localStorage, and in a running loadData's copy of the local stats.
StatsRecords ==
  LET objects == {state.paperStats, load.localStats}
                   \cup (IF storedStats # None THEN {Get(storedStats)} ELSE {})
  IN  UNION { { obj[p] : p \in DOMAIN obj } : obj \in objects }

\* calculateNextReview on every input of the bounded grid.
NextReviewResults ==
  { calculateNextReview(q, i, e) :
      q \in Qualities, i \in 0 .. MaxPrevInterval, e \in EaseInputs }

\* calculateNextReview returns no ease factor below 1.3 on that grid.
NextReviewKeepsFloor == \A r \in NextReviewResults : r.easeFactor >= 130

\* calculateNextReview returns no interval above 60 on that grid.
NextReviewKeepsCap == \A r \in NextReviewResults : r.interval <= 60

\* C1: in every reachable state every stored stats record has
\* easeFactor >= 1.3, and calculateNextReview returns easeFactor >= 1.3 for
\* every quality 0..5, every previous interval and every input ease factor,
\* also one below 1.3.
C1_EaseFloorKept ==
  /\ NextReviewKeepsFloor
  /\ \A r \in StatsRecords : r.easeFactor >= 130

\* C1 witness: a seventh failed session has been saved for a paper whose ease
\* factor was already 1.3 (1.1 without the floor).
C1_Witness ==
  /\ saved = 1
  /\ \E r \in StatsRecords :
        r.reviewCount = 7 /\ r.interval = 1 /\ r.easeFactor = 130

\* C2: calculateNextReview returns interval <= 60 for every quality 0..5,
\* previous interval and ease factor, and after any sequence of sessions
\* every stats record has interval <= 60.
C2_IntervalCapKept ==
  /\ NextReviewKeepsCap
  /\ \A r \in StatsRecords : r.interval <= 60

\* C2 witness: a passed session has been saved for a paper with interval 22
\* and ease factor 2.9 (64 days without the cap) and left interval 60.
C2_Witness ==
  /\ saved = 1
  /\ \E r \in StatsRecords : r.reviewCount = 5 /\ r.interval = 60

\* C9: in every reachable state a stats record that has a dueDate also has a
\* lastReviewed.
C9_DueDateHasLastReviewed ==
  \A r \in StatsRecords : r.dueDate # None => r.lastReviewed # None

\* C9 witness: loadData has merged a newer Notion page into a local record
\* that has a dueDate: the record carries the page's date and review count.
C9_Witness ==
  /\ load.pc = "done"
  /\ \E r \in StatsRecords :
        /\ r.dueDate # None
        /\ r.lastReviewed = SyncedPage.lastReviewed
        /\ r.reviewCount = Get(SyncedPage.reviewCount)
        /\ r.interval = 22

\* C10: in every reachable state a stats record without lastReviewed has
\* reviewCount 0 and interval 0, also a record imported from Notion for a
\* paper without a local record.
C10_NeverReviewedIsBlank ==
  \A r \in StatsRecords :
     r.lastReviewed = None => (r.reviewCount = 0 /\ r.interval = 0)

\* A step in which saveSession ran for a selected paper.
SessionSaved == saved' = saved + 1 /\ state'.currentPaper # None

\* The record the paper of the saved session had in the state before the
\* step (the default record when it had none).
StatsBeforeSave ==
  LET p == Get(state'.currentPaper)
  IN  IF p \in DOMAIN state.paperStats THEN state.paperStats[p]
      ELSE DefaultStats

\* The record of that paper after the step.
StatsAfterSave == state'.paperStats[Get(state'.currentPaper)]

\* C11: after every completed quiz session the paper's record has
\* lastReviewed = the completion time, interval = the value calculateNextReview
\* returned for this session, and dueDate = lastReviewed + interval days; the
\* same record is in localStorage.
C11_DueDateDerived ==
  [][SessionSaved =>
       LET old == StatsBeforeSave
           new == StatsAfterSave
           sr  == calculateNextReview(QualityOf(OverallScore(state'.answers)),
                                      old.interval, old.easeFactor)
       IN  /\ new.lastReviewed = Some(now')
           /\ new.interval = sr.interval
           /\ new.dueDate = Some(Get(new.lastReviewed)
                                  + new.interval * TicksPerDay)
           /\ storedStats' = Some(state'.paperStats)]_vars

\* C11 witness: a passed seventh session has moved a paper from interval 1 to
\* interval 3 and set its due date three days after the review.
C11_Witness ==
  /\ saved = 1
  /\ \E r \in StatsRecords :
        /\ r.reviewCount = 7
        /\ r.interval = 3
        /\ r.lastReviewed # None
        /\ r.dueDate = Some(Get(r.lastReviewed) + 3 * TicksPerDay)

\* Every mastery score held is within 0..100.
MasteryInRange ==
  \A r \in StatsRecords :
     0 <= r.masteryScore /\ r.masteryScore <= 100 * MasteryUnit

\* A step changes the mastery score of a record the state already held only
\* to the blend 0.7 * old + 0.3 * sessionScore, sessionScore in 0..100.
MasteryChangeIsBlend ==
  \A p \in DOMAIN state.paperStats \cap DOMAIN state'.paperStats :
     state'.paperStats[p].masteryScore # state.paperStats[p].masteryScore =>
        \E sessionScore \in 0 .. 100 :
           state'.paperStats[p].masteryScore
             = BlendMastery(state.paperStats[p].masteryScore, sessionScore)

\* C12: the mastery score of every record stays within 0..100, and every
\* change to an existing record's mastery score is the blend
\* 0.7 * old + 0.3 * sessionScore; no operation overwrites it with a raw
\* value.
C12_MasteryOnlyBlended ==
  []MasteryInRange /\ [][MasteryChangeIsBlend]_vars

\* ------------------------------------------------------------------ C13

\* This step completes a quiz session: the screen enters 'summary' with at
\* least one answer.
SessionCompleted ==
  /\ state.screen # "summary"
  /\ state'.screen = "summary"
  /\ Len(state'.answers) > 0

\* reviewCount of paper p in the stats map m, 0 for a paper without a record.
ReviewCountIn(m, p) == IF p \in DOMAIN m THEN m[p].reviewCount ELSE 0

\* This step runs the stats update of saveSession once: one more session is
\* stored, one updatePaperStats() is sent, and the current paper's
\* reviewCount is one higher in the state and in storage.
StatsUpdatedOnce ==
  /\ state'.currentPaper # None
  /\ Len(storedSessions') = Len(storedSessions) + 1
  /\ Len(syncs') = Len(syncs) + 1
  /\ LET p == Get(state'.currentPaper)
     IN  /\ ReviewCountIn(state'.paperStats, p)
              = ReviewCountIn(state.paperStats, p) + 1
         /\ storedStats' = Some(state'.paperStats)
         /\ \A q \in (DOMAIN state.paperStats) \ {p} :
               q \in DOMAIN state'.paperStats
               /\ state'.paperStats[q] = state.paperStats[q]

\* This step stores no session and sends no updatePaperStats().
NoStatsUpdate ==
  /\ Len(storedSessions') <= Len(storedSessions)
  /\ Len(syncs') <= Len(syncs)

\* C13: a step completes a session (the screen enters 'summary' with at
\* least one answer) exactly when it updates the current paper's stats, and
\* then it does so once: reviewCount goes up by exactly 1; every other step
\* (Home, History, Try Again, New Questions, Exit Quiz, ...) runs no update.
C13_OneUpdatePerSession ==
  [][IF SessionCompleted THEN StatsUpdatedOnce ELSE NoStatsUpdate]_vars

\* ------------------------------------------------------------------ C14

\* The values of the rating enum (qualityMap: forgot, struggled, good,
\* perfect).
RatingQualities == {0, 2, 4, 5}

\* The quality the saveSession of this step passes to calculateNextReview.
QualityPassed == QualityOf(OverallScore(state'.answers))

\* C14: every quality that saveSession passes to calculateNextReview is one
\* of the enum values 0, 2, 4 and 5; 1 and 3 are never passed.
C14_QualityIsEnumValue ==
  [][SessionSaved => QualityPassed \in RatingQualities]_vars

\* ------------------------------------------------------------------ C15

\* C15: a call of calculateNextReview with invalid input (quality outside
\* 0..5 or a negative previousInterval) produces no interval/easeFactor
\* result.
C15_InvalidInputRejected ==
  (srArgs # None /\ InvalidInput(Get(srArgs))) => srResult = None

\* ------------------------------------------------------------------ C16

\* This step settles the updatePaperStats() call r with a failure: the
\* request leaves the queue and the Notion page is what it was.
SyncFailed(r) ==
  /\ \E k \in 1 .. Len(syncs) : syncs[k] = r /\ syncs' = Without(syncs, k)
  /\ notion' = notion

\* C16: when updatePaperStats() fails, the local update is kept: the stats
\* in the state and under 'paper-stats' and the stored sessions are what
\* they were, and saveSession still dispatches the history that ends with
\* the session just saved.
C16_LocalUpdateKept ==
  [][\A k \in 1 .. Len(syncs) :
       SyncFailed(syncs[k]) =>
         /\ state'.paperStats = state.paperStats
         /\ storedStats' = storedStats
         /\ storedSessions' = storedSessions
         /\ ~syncs[k].orphan =>
              /\ state'.sessionHistory = syncs[k].newHistory
              /\ Len(state'.sessionHistory) > 0
              /\ state'.sessionHistory[Len(state'.sessionHistory)].paperId
                   = Some(syncs[k].paperId)]_vars

\* The sync of the first session of p1 has failed (the Notion page is still
\* blank); the new record is in the state and in storage, and the session
\* is in the history.
C16_Witness ==
  /\ saved = 1
  /\ syncs = <<>>
  /\ notion["p1"] = BlankPage
  /\ "p1" \in DOMAIN state.paperStats
  /\ state.paperStats["p1"].reviewCount = 1
  /\ storedStats = Some(state.paperStats)
  /\ Len(storedSessions) = 1
  /\ Len(state.sessionHistory) = 1
  /\ state.sessionHistory[1].paperId = Some("p1")

\* ------------------------------------------------------------------ C17

\* answers[i] !== undefined (i counts from 0, as currentCardIndex does).
Answered(answers, i) == i + 1 <= Len(answers) /\ answers[i + 1] # None

\* The card on the review screen, if it has an answer, is shown as answered.
AnsweredCardIsMarked ==
  (CardShown /\ Answered(state.answers, state.currentCardIndex))
     => state.isAnswered

\* Within a session (until the answers are emptied by a new quiz, an exit or
\* a reload) a recorded answer stays what it is.
AnswerNeverReplaced ==
  \A i \in 0 .. (Len(state.answers) - 1) :
     Answered(state.answers, i) =>
        \/ state'.answers = <<>>
        \/ /\ Answered(state'.answers, i)
           /\ state'.answers[i + 1] = state.answers[i + 1]

\* C17: once answers[i] is defined it is never replaced for the rest of the
\* session, and an answered card is always presented with isAnswered true.
C17_AnswerIsFinal ==
  []AnsweredCardIsMarked /\ [][AnswerNeverReplaced]_vars

\* ------------------------------------------------------------------ C18

\* This step settles the k-th pending evaluation, one whose request failed.
EvaluationFailed(k) ==
  /\ evals[k].fails
  /\ evals' = Without(evals, k)
  /\ load' = load

\* C18: when the evaluation of an open-ended answer fails, the answer saved
\* for the card has score 70, isCorrect true and no feedback.
C18_FailedEvaluationFallback ==
  [][\A k \in 1 .. Len(evals) :
       EvaluationFailed(k) =>
         /\ Answered(state'.answers, state.currentCardIndex)
         /\ Get(state'.answers[state.currentCardIndex + 1])
              = [score |-> 70, isCorrect |-> TRUE, feedback |-> FALSE]]_vars

\* ------------------------------------------------------------------ C19

\* C19: for every stats record and the priority calculatePriority returns
\* for it, the 'Needs review only' filter hides the paper exactly when its
\* badge is 'Good'.
C19_FilterHidesGoodOnly ==
  PRReturned =>
    LET stats == Get(prArgs).stats
        priority == Get(prResult)
    IN  needsReview(stats, priority) <=> getStatusBadge(stats, priority) # "Good"

\* A reviewed paper whose priority is exactly 40 (ten days and low mastery):
\* its badge is Weak and the filter keeps it.
C19_Witness ==
  /\ PRReturned
  /\ Get(prResult) = 40
  /\ Get(prArgs).stats # None
  /\ Get(Get(prArgs).stats).lastReviewed # None
  /\ getStatusBadge(Get(prArgs).stats, Get(prResult)) = "Weak"
  /\ needsReview(Get(prArgs).stats, Get(prResult))

\* ------------------------------------------------------------------ C20

\* This step ends loadData's fetch of the papers (with or without a merge).
LoadEnds == load.pc = "fetch" /\ load'.pc = "done"

\* The record new replaces the record old of paper p as the merge allows:
\* it differs only if the page's lastReviewed is strictly later than the
\* record's, and never in easeFactor, interval or dueDate.
MergeFrame(p, old, new) ==
  /\ new # old => DateMs(notion[p].lastReviewed) > DateMs(old.lastReviewed)
  /\ new.easeFactor = old.easeFactor
  /\ new.interval = old.interval
  /\ new.dueDate = old.dueDate

\* C20: on load, the record loadData read from 'paper-stats' for a paper
\* is changed by the Notion merge only if Notion's lastReviewed is strictly
\* later than the local one, and then only in lastReviewed, masteryScore
\* and reviewCount; easeFactor, interval and dueDate are unchanged, and
\* records without newer Notion data are kept. Either the load writes
\* nothing, or what it dispatches and stores is the merged map.
C20_MergeFrame ==
  [][LoadEnds =>
       \/ /\ state'.paperStats = state.paperStats
          /\ storedStats' = storedStats
       \/ /\ storedStats' = Some(state'.paperStats)
          /\ \A p \in DOMAIN load.localStats :
               /\ p \in DOMAIN state'.paperStats
               /\ MergeFrame(p, load.localStats[p], state'.paperStats[p])]_vars

\* The load has merged a newer Notion page (reviewed at tick 3, mastery 80,
\* count 3) into the record p1 had after four perfect sessions: the three
\* synced fields are Notion's, the schedule is the local one.
C20_Witness ==
  /\ load.pc = "done"
  /\ saved = 0
  /\ "p1" \in DOMAIN state.paperStats
  /\ LET new == state.paperStats["p1"]
         old == StatsAfter(4, 100, 1)
     IN  /\ new.lastReviewed = Some(3)
         /\ new.masteryScore = 80 * MasteryUnit
         /\ new.reviewCount = 3
         /\ new.masteryScore # old.masteryScore
         /\ new.easeFactor = old.easeFactor
         /\ new.interval = old.interval
         /\ new.dueDate = old.dueDate
         /\ old.interval > 1
  /\ storedStats = Some(state.paperStats)

\* ------------------------------------------------------------------ C21

\* Paper p has a stats record, in the state or under 'paper-stats'.
HasRecord(p) ==
  \/ p \in DOMAIN state.paperStats
  \/ storedStats # None /\ p \in DOMAIN Get(storedStats)

\* Paper p has a stats record after this step.
HasRecordNext(p) ==
  \/ p \in DOMAIN state'.paperStats
  \/ storedStats' # None /\ p \in DOMAIN Get(storedStats')

\* This step completes a quiz session for paper p.
SessionSavedFor(p) == SessionSaved /\ state'.currentPaper = Some(p)

\* C21: once handleResetProgress has finished, paperStats and
\* sessionHistory are empty, and from then on (reloads included) a paper
\* has a stats record only if a quiz session for it was completed after
\* the reset: a record present after a step was there before the step,
\* after the reset, or is written by a session completed in this step.
C21_ResetIsPermanent ==
  [][reset'.done =>
       /\ ~reset.done =>
            state'.paperStats = EmptyMap /\ state'.sessionHistory = <<>>
       /\ \A p \in Papers :
            HasRecordNext(p) =>
               \/ reset.done /\ HasRecord(p)
               \/ SessionSavedFor(p)]_vars

\* ------------------------------------------------------------------ C22

\* This step settles the k-th pending evaluation.
EvaluationSettled(k) ==
  /\ evals' = Without(evals, k)
  /\ load' = load

\* C22: the result of the evaluation started for card i is stored at
\* answers[i]: the step that settles it defines answers[i] and leaves every
\* other card's slot as it was.
C22_ResultInOwnSlot ==
  [][\A k \in 1 .. Len(evals) :
       EvaluationSettled(k) =>
         LET i == evals[k].card
         IN  /\ Answered(state'.answers, i)
             /\ \A j \in 0 .. (Len(state'.answers) - 1) :
                  j # i =>
                    /\ j + 1 <= Len(state.answers)
                    /\ state'.answers[j + 1] = state.answers[j + 1]]_vars

\* ------------------------------------------------------------------ C23

\* The papers whose record a completed session of this visit has written.
SessionPapers ==
  IF saved = 0 THEN {}
  ELSE { p \in Papers :
           \E i \in 1 .. Len(storedSessions) :
              /\ i > Len(storedSessions) - saved
              /\ storedSessions[i].paperId = Some(p) }

\* C23: a completed session's stats update is never lost to the start-up
\* load: when the load ends, the record saveSession wrote for the paper is
\* still in the state and under 'paper-stats', changed at most as a merge
\* of newer Notion data may change it (never in easeFactor, interval or
\* dueDate).
C23_UpdateNotLost ==
  [][LoadEnds =>
       \A p \in SessionPapers :
          /\ p \in DOMAIN state.paperStats =>
               /\ p \in DOMAIN state'.paperStats
               /\ MergeFrame(p, state.paperStats[p], state'.paperStats[p])
          /\ (storedStats # None /\ p \in DOMAIN Get(storedStats)) =>
               /\ storedStats' # None
               /\ p \in DOMAIN Get(storedStats')
               /\ MergeFrame(p, Get(storedStats)[p], Get(storedStats')[p])]_vars

\* ------------------------------------------------------------------ C24

\* The review screen is shown (it renders only with cards).
ReviewShown == state.screen = "review" /\ Len(state.flashcards) > 0

\* C24: whenever the review screen is shown, state.flashcards are cards of
\* state.currentPaper.
C24_CardsOfCurrentPaper ==
  ReviewShown =>
    /\ state.currentPaper # None
    /\ \A i \in 1 .. Len(state.flashcards) :
         state.flashcards[i].paper = Get(state.currentPaper)

\* ------------------------------------------------------------------ C25

\* This step is the last of loadData, whatever the outcome of the health
\* check and of fetchPapers.
LoadFinishes == load.pc \in {"health", "fetch"} /\ load'.pc = "done"

\* C25: the initial load ends with the loading indicator cleared: when
\* loadData finishes and no quiz is being generated, isLoading is false,
\* so the home screen displays the paper list.
C25_LoadClearsIndicator ==
  [][(LoadFinishes /\ gen' = <<>>) => ~state'.isLoading]_vars
====
